---- MODULE Spec2Model ----
(***************************************************************************)
(* Model of the gers-platform bump allocator (gers_api/src/bump.rs).       *)
(*                                                                         *)
(* Addresses, sizes and alignments are machine words (usize) of WordBits   *)
(* bits.  Rust arithmetic on usize panics on overflow when the crate is    *)
(* built with debug assertions / overflow checks and wraps modulo          *)
(* 2^WordBits otherwise; the build profile is fixed in Init.               *)
(***************************************************************************)
EXTENDS Integers, Sequences, FiniteSets, TLC

VARIABLES
    debug_assertions,   \* build profile: TRUE = debug_assert! and overflow checks are on
    bump,               \* the BumpAllocator: [cursor, block : [ptr, size], initialzed]
    heap,               \* base addresses of the blocks currently held from the system allocator
    last,               \* the most recent call on bump and what it returned
    prev,               \* bump as it was when the most recent call was made
    calls,              \* number of calls made on bump so far
    halted,             \* the process has panicked or aborted
    dropped,            \* bump has been dropped: its life is over
    wild,               \* pointers handed to the system deallocator while no block was held there
    twin,               \* a second BumpAllocator, living at another base address
    twinLast,           \* the most recent call on twin and what it returned
    twinInRange,        \* every request sent to bump and twin so far had an align <= BLOCK_SIZE
    granted,            \* the highest end address of the byte ranges that successful allocs on
                        \* bump returned since the last reset or initialize call: upto counts
                        \* every call made, below all but the most recent one
    hookRet,            \* the most recent guest ABI hook called on bump and what came back
    plugins,            \* the registry: the loaded plugins in load order
    pc,                 \* where main() is
    pi,                 \* the index of the plugin the running loop is at
    log,                \* per plugin, what the host did to it in the running round
    round,              \* the round log is about: "init", "update" or "tick"
    lockstep_timer,     \* milliseconds
    hello_counter,
    frames,             \* the frames started so far
    control_flow,       \* winit's ControlFlow
    wasm_ptr,           \* the address the alloc hook returned, while it is in use
    trapped,            \* a hook trapped in a tick before the running round
    dispatch_timer,     \* lockstep_timer when the running frame's dispatch started
    dispatch_counter,   \* hello_counter when the running frame's dispatch started
    frame_ticks,        \* the ticks finished in the running frame
    init_failed,        \* the plugins whose event-init hook did not return success
    guests,             \* per plugin, the state of its instance: allocator and memory
    loads,              \* the load_plugin_dir calls made so far: directory and result
    core_event_data,    \* EVENT_DATA of gers_core, a Vec<u8>
    core_last,          \* the most recent gers_core hook called and what it did
    payload             \* a HelloEvent on its way from the host into a guest's buffer

hookVars == <<hookRet>>

tickVars == <<dispatch_timer, dispatch_counter, frame_ticks>>

hostVars == <<plugins, pc, pi, log, round, lockstep_timer, hello_counter, frames,
              control_flow, wasm_ptr, trapped, tickVars, init_failed, guests>>

bumpVars == <<debug_assertions, bump, heap, last, prev, calls, halted, dropped, wild,
              twin, twinLast, twinInRange, granted, hookVars>>

loadVars == <<loads>>

coreVars == <<core_event_data, core_last>>

sideVars == <<coreVars, payload>>

vars == <<bumpVars, hostVars, loadVars, sideVars>>

(***************************************************************************)
(* Bounds of the model.                                                    *)
(***************************************************************************)
WordBits == 16
MaxCalls == 4
MaxTwinCalls == 3

(***************************************************************************)
(* Machine words.                                                          *)
(***************************************************************************)
USIZE == 2 ^ WordBits
USIZE_MAX == USIZE - 1

\* std::mem::size_of::<usize>()
size_of_usize == WordBits \div 8

\* a + b on usize: the wrapped value and whether the addition overflowed
Add(a, b) == [v |-> (a + b) % USIZE, o |-> a + b >= USIZE]

\* a - b on usize: the wrapped value and whether the subtraction overflowed
Sub(a, b) == [v |-> (a - b + USIZE) % USIZE, o |-> a < b]

RECURSIVE BitAnd(_, _, _)
\* x & y on the low n bits
BitAnd(x, y, n) ==
    IF n = 0 THEN 0
    ELSE (x % 2) * (y % 2) + 2 * BitAnd(x \div 2, y \div 2, n - 1)

\* !x on usize
BitNot(x) == USIZE_MAX - x

RECURSIVE is_power_of_two(_)
\* usize::is_power_of_two
is_power_of_two(n) ==
    IF n = 0 THEN FALSE
    ELSE IF n = 1 THEN TRUE
    ELSE n % 2 = 0 /\ is_power_of_two(n \div 2)

(***************************************************************************)
(* bump.rs                                                                 *)
(***************************************************************************)
BLOCK_SIZE_BITS == 12
BLOCK_SIZE == 2 ^ BLOCK_SIZE_BITS

BumpError == {"BadRequest", "OutOfMemory", "NoSpace", "Uninitialized"}

\* addresses the system allocator considers for a new block, in the lower and the
\* upper half of the address space; a block never reaches the end of the address space
HeapAddrs == {BLOCK_SIZE, 2 * BLOCK_SIZE, 3 * BLOCK_SIZE + 8, USIZE - 2 * BLOCK_SIZE}

\* request sizes and alignments the callers pass
Sizes == {0, size_of_usize, 16, BLOCK_SIZE - 16, BLOCK_SIZE - 1, BLOCK_SIZE,
          USIZE - 2 * BLOCK_SIZE, USIZE_MAX}
Aligns == {0, 1, 3, 8, BLOCK_SIZE, 2 * BLOCK_SIZE, USIZE \div 2}

\* (addr + align - 1) & !(align - 1), with the debug_assert and the overflows it meets:
\* v is the wrapped value, o says an operation overflowed, pow2 is the asserted condition
align_up(addr, align) ==
    LET s1 == Add(addr, align)
        s2 == Sub(s1.v, 1)
        m  == Sub(align, 1)
    IN  [v    |-> BitAnd(s2.v, BitNot(m.v), WordBits),
         o    |-> s1.o \/ s2.o \/ m.o,
         pow2 |-> is_power_of_two(align)]

\* align_word comparing with >= : a value of exactly one word gets two words
align_word_ge(size) ==
    LET word == size_of_usize
    IN  IF size >= word THEN word * 2 ELSE word

align_word(size) ==
    LET word == size_of_usize
    IN  IF size > word THEN word * 2 ELSE word

\* std::alloc::alloc(layout): the addresses it may return, aligned to align and
\* clear of the blocks held (h holds their base addresses, each BLOCK_SIZE long)
std_alloc(size, align, h) ==
    {a \in HeapAddrs : /\ a % align = 0
                       /\ \A b \in h : a + size <= b \/ b + BLOCK_SIZE <= a}

\* the free function alloc(size, align): the set of its possible results,
\* a pointer to a new block or an error
raw_alloc(size, align, h) ==
    IF align = 0 THEN {[res |-> "BadRequest", ptr |-> 0]}
    ELSE IF ~is_power_of_two(align) THEN {[res |-> "BadRequest", ptr |-> 0]}
    ELSE IF size > USIZE_MAX - (align - 1) THEN {[res |-> "BadRequest", ptr |-> 0]}
    ELSE {[res |-> "OutOfMemory", ptr |-> 0]}
         \cup {[res |-> "Ok", ptr |-> p] : p \in std_alloc(size, align, h)}

\* RawBlock::new asking the system allocator for word alignment only
RawBlock_new_word_aligned(size, h) ==
    {IF r.res = "Ok" THEN [res |-> "Ok", block |-> [ptr |-> r.ptr, size |-> size]]
                     ELSE [res |-> r.res, block |-> [ptr |-> 0, size |-> 0]]
        : r \in raw_alloc(size, 8, h)}

\* RawBlock::new(size)
RawBlock_new(size, h) ==
    {IF r.res = "Ok" THEN [res |-> "Ok", block |-> [ptr |-> r.ptr, size |-> size]]
                     ELSE [res |-> r.res, block |-> [ptr |-> 0, size |-> 0]]
        : r \in raw_alloc(size, size, h)}

\* RawBlock::dangling(): NonNull::<u8>::dangling() is the address 1
RawBlock_dangling == [ptr |-> 1, size |-> 0]

\* BumpAllocator::uninit()
BumpAllocator_uninit == [cursor |-> 0, block |-> RawBlock_dangling, initialzed |-> FALSE]

\* the allocator BumpAllocator::new() builds around the block it acquired
BumpAllocator_new(block) == [cursor |-> 0, block |-> block, initialzed |-> TRUE]

\* initialize replacing the block but keeping the old cursor
BumpAllocator_initialize_keeps_cursor(self, block) ==
    [cursor |-> self.cursor, block |-> block, initialzed |-> TRUE]

\* the allocator BumpAllocator::initialize() stores in *self around the block it acquired
BumpAllocator_initialize(self, block) == [cursor |-> 0, block |-> block, initialzed |-> TRUE]

\* alloc committing the cursor before the space check
BumpAllocator_alloc_commit_early(self, size, align, dbg) ==
    IF ~self.initialzed
    THEN [res |-> "Uninitialized", ptr |-> 0, self |-> self]
    ELSE
        LET base    == self.block.ptr
            a0      == Add(base, self.cursor)
            aligned == align_up(a0.v, align)
            sum     == Add(aligned.v, size)
            next    == Sub(sum.v, base)
        IN  IF dbg /\ (a0.o \/ ~aligned.pow2 \/ aligned.o \/ sum.o \/ next.o)
            THEN [res |-> "Panic", ptr |-> 0, self |-> self]
            ELSE IF next.v >= self.block.size
            THEN [res |-> "NoSpace", ptr |-> 0, self |-> [self EXCEPT !.cursor = next.v]]
            ELSE [res |-> "Ok", ptr |-> aligned.v,
                  self |-> [self EXCEPT !.cursor = next.v]]

\* alloc testing the old cursor, not the new one, against the block size
BumpAllocator_alloc_checks_cursor(self, size, align, dbg) ==
    IF ~self.initialzed
    THEN [res |-> "Uninitialized", ptr |-> 0, self |-> self]
    ELSE
        LET base    == self.block.ptr
            a0      == Add(base, self.cursor)
            aligned == align_up(a0.v, align)
            sum     == Add(aligned.v, size)
            next    == Sub(sum.v, base)
        IN  IF dbg /\ (a0.o \/ ~aligned.pow2 \/ aligned.o \/ sum.o \/ next.o)
            THEN [res |-> "Panic", ptr |-> 0, self |-> self]
            ELSE IF self.cursor >= self.block.size
            THEN [res |-> "NoSpace", ptr |-> 0, self |-> self]
            ELSE [res |-> "Ok", ptr |-> aligned.v,
                  self |-> [self EXCEPT !.cursor = next.v]]

\* BumpAllocator::alloc(size, align) on the allocator self, built with (dbg) or
\* without debug assertions: the result, the returned address and the allocator after
BumpAllocator_alloc(self, size, align, dbg) ==
    IF ~self.initialzed
    THEN [res |-> "Uninitialized", ptr |-> 0, self |-> self]
    ELSE
        LET base    == self.block.ptr
            a0      == Add(base, self.cursor)
            aligned == align_up(a0.v, align)
            sum     == Add(aligned.v, size)
            next    == Sub(sum.v, base)
        IN  IF dbg /\ (a0.o \/ ~aligned.pow2 \/ aligned.o \/ sum.o \/ next.o)
            THEN [res |-> "Panic", ptr |-> 0, self |-> self]
            ELSE IF next.v >= self.block.size
            THEN [res |-> "NoSpace", ptr |-> 0, self |-> self]
            ELSE [res |-> "Ok", ptr |-> aligned.v,
                  self |-> [self EXCEPT !.cursor = next.v]]

\* NonNull::new_unchecked(ptr) in alloc is undefined behaviour when ptr is null:
\* the call then either returns the null RawPtr or the process dies
new_unchecked_outcomes(r) ==
    IF r.res = "Ok" /\ r.ptr = 0 THEN {r, [r EXCEPT !.res = "Abort"]} ELSE {r}

\* BumpAllocator::alloc_aligned(size)
BumpAllocator_alloc_aligned(self, size, dbg) ==
    BumpAllocator_alloc(self, size, align_word(size), dbg)

\* reset rebuilding the allocator around a dangling block
BumpAllocator_reset_rebuilds(self) ==
    IF ~self.initialzed
    THEN [res |-> "Uninitialized", self |-> self]
    ELSE [res |-> "Ok", self |-> [cursor |-> 0, block |-> RawBlock_dangling, initialzed |-> TRUE]]

\* reset without the initialized check
BumpAllocator_reset_unchecked(self) ==
    [res |-> "Ok", self |-> [self EXCEPT !.cursor = 0]]

\* reset that reports success but leaves the cursor where it was
BumpAllocator_reset_keeps_cursor(self) ==
    IF ~self.initialzed
    THEN [res |-> "Uninitialized", self |-> self]
    ELSE [res |-> "Ok", self |-> self]

\* BumpAllocator::reset()
BumpAllocator_reset(self) ==
    IF ~self.initialzed
    THEN [res |-> "Uninitialized", self |-> self]
    ELSE [res |-> "Ok", self |-> [self EXCEPT !.cursor = 0]]

(***************************************************************************)
(* The calls made on one allocator.                                        *)
(***************************************************************************)
\* the bytes an allocation of size bytes at address ptr is entitled to
Range(ptr, size) == [ptr |-> ptr, size |-> size]

\* no range has been returned since the last reset or initialize call
NoneGranted == [below |-> 0, upto |-> 0]

\* the ranges returned so far, after a call that returned none
Ungranted(g) == [below |-> g.upto, upto |-> g.upto]

\* the ranges returned so far, and one more
Grant(g, range) ==
    [below |-> g.upto,
     upto  |-> IF range.ptr + range.size > g.upto THEN range.ptr + range.size ELSE g.upto]

NoCall == [op |-> "none", size |-> 0, align |-> 0, res |-> "none", ptr |-> 0, pre |-> "none"]

\* a call, what it returned, and (pre) the call that was made before it
Call(op, size, align, res, ptr) ==
    [op |-> op, size |-> size, align |-> align, res |-> res, ptr |-> ptr, pre |-> last.op]

Crashes == {"Panic", "Abort"}

\* what a guest hook hands back to the host: the value it returned, or a trap
NoHook == [hook |-> "none", trap |-> FALSE, val |-> 0]

HookReturn(hook, val) == [hook |-> hook, trap |-> FALSE, val |-> val]

HookTrap(hook) == [hook |-> hook, trap |-> TRUE, val |-> 0]

\* RawBlock_drop forgetting the block instead of releasing it
RawBlock_drop_leaks(block, h) == {[abort |-> FALSE, heap |-> h]}

\* Drop for RawBlock, run on the block that `*self = ...` replaces, with h the blocks
\* held: the possible outcomes.  Releasing the dangling block (size 0, a pointer the
\* system allocator never returned) is undefined behaviour.
RawBlock_drop(block, h) ==
    IF block.ptr \in h
    THEN {[abort |-> FALSE, heap |-> h \ {block.ptr}]}
    ELSE {[abort |-> FALSE, heap |-> h], [abort |-> TRUE, heap |-> h]}

\* the pointer std::alloc::dealloc is called with in Drop for RawBlock, when no
\* block is held at that address
dealloc_wild(block, h) == IF block.ptr \in h THEN {} ELSE {block.ptr}

\* no gers_core guest runs
SideOff ==
    /\ core_event_data = [ptr |-> 1, len |-> 0, cap |-> 0]
    /\ core_last = [hook |-> "none", tag |-> 0, ptr |-> 0, trap |-> FALSE, ret |-> 0,
                    deref |-> FALSE]
    /\ payload = [stage |-> "none", counter |-> 0,
                  event |-> [data |-> 0, padding |-> 0, div |-> 0], ptr |-> 0,
                  buffer |-> <<0, 0, 0, 0, 0, 0, 0, 0>>,
                  read |-> [some |-> FALSE, event |-> [data |-> 0, padding |-> 0, div |-> 0]]]

\* no host runs: the allocator is used directly
HostOff ==
    /\ plugins = <<>>
    /\ pc = "off"
    /\ pi = 1
    /\ log = <<>>
    /\ round = "none"
    /\ lockstep_timer = 0
    /\ hello_counter = 0
    /\ frames = 0
    /\ control_flow = "Poll"
    /\ wasm_ptr = 0
    /\ trapped = FALSE
    /\ dispatch_timer = 0
    /\ dispatch_counter = 0
    /\ frame_ticks = 0
    /\ init_failed = {}
    /\ guests = <<>>
    /\ loads = <<>>

\* the program starts with an allocator from BumpAllocator::uninit() or from a
\* successful BumpAllocator::new()
Init ==
    /\ debug_assertions \in BOOLEAN
    /\ \/ bump = BumpAllocator_uninit /\ heap = {}
       \/ \E r \in RawBlock_new(BLOCK_SIZE, {}) :
            /\ r.res = "Ok"
            /\ bump = BumpAllocator_new(r.block)
            /\ heap = {r.block.ptr}
    /\ last = NoCall
    /\ prev = bump
    /\ calls = 0
    /\ halted = FALSE
    /\ dropped = FALSE
    /\ wild = {}
    /\ hookRet = NoHook
    /\ HostOff
    /\ SideOff
    /\ twin = BumpAllocator_uninit
    /\ twinLast = NoCall
    /\ twinInRange = TRUE
    /\ granted = NoneGranted

\* BumpAllocator::initialize()
Initialize ==
    /\ ~halted
    /\ ~dropped
    /\ calls < MaxCalls
    /\ calls' = calls + 1
    /\ prev' = bump
    /\ granted' = NoneGranted
    /\ \E r \in RawBlock_new(BLOCK_SIZE, heap) :
         IF r.res # "Ok"
         THEN /\ last' = Call("initialize", 0, 0, r.res, 0)
              /\ UNCHANGED <<bump, heap, halted, wild>>
         ELSE \E d \in RawBlock_drop(bump.block, heap \cup {r.block.ptr}) :
                /\ wild' = wild \cup dealloc_wild(bump.block, heap \cup {r.block.ptr})
                /\ IF d.abort
                   THEN /\ last' = Call("initialize", 0, 0, "Abort", 0)
                        /\ halted' = TRUE
                        /\ UNCHANGED <<bump, heap>>
                   ELSE /\ last' = Call("initialize", 0, 0, "Ok", 0)
                        /\ bump' = BumpAllocator_initialize(bump, r.block)
                        /\ heap' = d.heap
                        /\ UNCHANGED halted
    /\ UNCHANGED <<debug_assertions, dropped, twin, twinLast, twinInRange>>
    /\ UNCHANGED <<hookVars, hostVars, loadVars, sideVars>>

\* BumpAllocator::alloc(size, align)
Alloc ==
    /\ ~halted
    /\ ~dropped
    /\ calls < MaxCalls
    /\ calls' = calls + 1
    /\ prev' = bump
    /\ \E size \in Sizes, align \in Aligns :
         \E r \in new_unchecked_outcomes(BumpAllocator_alloc(bump, size, align, debug_assertions)) :
            /\ last' = Call("alloc", size, align, r.res, r.ptr)
            /\ bump' = IF r.res \in Crashes THEN bump ELSE r.self
            /\ halted' = (r.res \in Crashes)
            /\ granted' = IF r.res = "Ok" THEN Grant(granted, Range(r.ptr, size))
                           ELSE Ungranted(granted)
    /\ UNCHANGED <<debug_assertions, heap, dropped, wild, twin, twinLast, twinInRange>>
    /\ UNCHANGED <<hookVars, hostVars, loadVars, sideVars>>

\* BumpAllocator::alloc_aligned(size)
AllocAligned ==
    /\ ~halted
    /\ ~dropped
    /\ calls < MaxCalls
    /\ calls' = calls + 1
    /\ prev' = bump
    /\ \E size \in Sizes :
         \E r \in new_unchecked_outcomes(BumpAllocator_alloc_aligned(bump, size, debug_assertions)) :
            /\ last' = Call("alloc_aligned", size, 0, r.res, r.ptr)
            /\ bump' = IF r.res \in Crashes THEN bump ELSE r.self
            /\ halted' = (r.res \in Crashes)
            /\ granted' = IF r.res = "Ok" THEN Grant(granted, Range(r.ptr, size))
                           ELSE Ungranted(granted)
    /\ UNCHANGED <<debug_assertions, heap, dropped, wild, twin, twinLast, twinInRange>>
    /\ UNCHANGED <<hookVars, hostVars, loadVars, sideVars>>

\* BumpAllocator::reset()
Reset ==
    /\ ~halted
    /\ ~dropped
    /\ calls < MaxCalls
    /\ calls' = calls + 1
    /\ prev' = bump
    /\ granted' = NoneGranted
    /\ LET r == BumpAllocator_reset(bump)
       IN  /\ last' = Call("reset", 0, 0, r.res, 0)
           /\ bump' = r.self
    /\ UNCHANGED <<debug_assertions, heap, halted, dropped, wild, twin, twinLast, twinInRange>>
    /\ UNCHANGED <<hookVars, hostVars, loadVars, sideVars>>

\* the allocator goes out of scope: its block field is dropped
Drop ==
    /\ ~halted
    /\ ~dropped
    /\ calls < MaxCalls
    /\ calls' = calls + 1
    /\ prev' = bump
    /\ dropped' = TRUE
    /\ wild' = wild \cup dealloc_wild(bump.block, heap)
    /\ \E d \in RawBlock_drop(bump.block, heap) :
         /\ last' = Call("drop", 0, 0, IF d.abort THEN "Abort" ELSE "Ok", 0)
         /\ halted' = d.abort
         /\ heap' = d.heap
    /\ UNCHANGED <<debug_assertions, bump, twin, twinLast, twinInRange, granted>>
    /\ UNCHANGED <<hookVars, hostVars, loadVars, sideVars>>

Next == Initialize \/ Alloc \/ AllocAligned \/ Reset \/ Drop

Spec == Init /\ [][Next]_vars

(***************************************************************************)
(* Two freshly initialized allocators at different base addresses that are *)
(* sent the same requests.                                                 *)
(***************************************************************************)
InitTwin ==
    /\ debug_assertions \in BOOLEAN
    /\ \E r1 \in RawBlock_new(BLOCK_SIZE, {}) :
         /\ r1.res = "Ok"
         /\ \E r2 \in RawBlock_new(BLOCK_SIZE, {r1.block.ptr}) :
              /\ r2.res = "Ok"
              /\ bump = BumpAllocator_new(r1.block)
              /\ twin = BumpAllocator_new(r2.block)
              /\ heap = {r1.block.ptr, r2.block.ptr}
    /\ last = NoCall
    /\ prev = bump
    /\ twinLast = NoCall
    /\ twinInRange = TRUE
    /\ granted = NoneGranted
    /\ calls = 0
    /\ halted = FALSE
    /\ dropped = FALSE
    /\ wild = {}
    /\ hookRet = NoHook
    /\ HostOff
    /\ SideOff

\* the same alloc(size, align), align a power of two, on both allocators
TwinAlloc ==
    /\ ~halted
    /\ calls < MaxTwinCalls
    /\ calls' = calls + 1
    /\ prev' = bump
    /\ \E size \in Sizes, align \in {a \in Aligns : is_power_of_two(a)} :
         \E r1 \in new_unchecked_outcomes(BumpAllocator_alloc(bump, size, align, debug_assertions)),
            r2 \in new_unchecked_outcomes(BumpAllocator_alloc(twin, size, align, debug_assertions)) :
            /\ last' = Call("alloc", size, align, r1.res, r1.ptr)
            /\ twinLast' = Call("alloc", size, align, r2.res, r2.ptr)
            /\ bump' = IF r1.res \in Crashes THEN bump ELSE r1.self
            /\ twin' = IF r2.res \in Crashes THEN twin ELSE r2.self
            /\ halted' = (r1.res \in Crashes \/ r2.res \in Crashes)
            /\ twinInRange' = (twinInRange /\ align <= BLOCK_SIZE)
    /\ UNCHANGED <<debug_assertions, heap, dropped, wild, granted>>
    /\ UNCHANGED <<hookVars, hostVars, loadVars, sideVars>>

NextTwin == TwinAlloc

SpecTwin == InitTwin /\ [][NextTwin]_vars

(***************************************************************************)
(* gers_api: the status codes and the guest hooks (lib.rs, hooks.rs).      *)
(* EVENT_DATA is bump, created by BumpAllocator::uninit().                 *)
(***************************************************************************)
gers_error_t ==
    [Success |-> 0, GenericError |-> 1, BadAlloc |-> 2, OutOfMemory |-> 11,
     NoSpace |-> 12, AllocUninitialized |-> 13]

\* the match of __gers_bump_init without the OutOfMemory arm
bump_init_status_no_oom(res) ==
    CASE res = "Ok" -> gers_error_t.Success
      [] res = "BadRequest" -> gers_error_t.BadAlloc
      [] res = "Uninitialized" -> gers_error_t.AllocUninitialized
      [] OTHER -> gers_error_t.GenericError

\* the match in __gers_bump_init
bump_init_status(res) ==
    CASE res = "Ok" -> gers_error_t.Success
      [] res = "BadRequest" -> gers_error_t.BadAlloc
      [] res = "OutOfMemory" -> gers_error_t.OutOfMemory
      [] res = "Uninitialized" -> gers_error_t.AllocUninitialized
      [] OTHER -> gers_error_t.GenericError

\* the match in __gers_bump_reset
bump_reset_status(res) ==
    CASE res = "Ok" -> gers_error_t.Success
      [] res = "Uninitialized" -> gers_error_t.AllocUninitialized
      [] OTHER -> gers_error_t.GenericError

\* the match in __gers_bump_alloc: the address, or null
bump_alloc_ptr(r) == IF r.res = "Ok" THEN r.ptr ELSE 0

\* initialize() releasing the block it holds before it asks for the new one
initialize_outcomes_drops_first(self, h) ==
    UNION {
        IF r.res # "Ok"
        THEN {[res |-> r.res, self |-> self, heap |-> h \ {self.block.ptr}, wild |-> {}]}
        ELSE {[res  |-> "Ok",
               self |-> BumpAllocator_initialize(self, r.block),
               heap |-> (h \ {self.block.ptr}) \cup {r.block.ptr},
               wild |-> {}]}
        : r \in RawBlock_new(BLOCK_SIZE, h \ {self.block.ptr})}

\* BumpAllocator::initialize() on self with the blocks h held: its possible
\* outcomes (a panic or an abort inside the guest is a trap for the host)
initialize_outcomes(self, h) ==
    UNION {
        IF r.res # "Ok"
        THEN {[res |-> r.res, self |-> self, heap |-> h, wild |-> {}]}
        ELSE {[res  |-> IF d.abort THEN "Abort" ELSE "Ok",
               self |-> IF d.abort THEN self ELSE BumpAllocator_initialize(self, r.block),
               heap |-> IF d.abort THEN h ELSE d.heap,
               wild |-> dealloc_wild(self.block, h \cup {r.block.ptr})]
                : d \in RawBlock_drop(self.block, h \cup {r.block.ptr})}
        : r \in RawBlock_new(BLOCK_SIZE, h)}

\* the program is a guest module whose EVENT_DATA has not been touched yet
InitHooks ==
    /\ debug_assertions \in BOOLEAN
    /\ bump = BumpAllocator_uninit
    /\ heap = {}
    /\ last = NoCall
    /\ prev = bump
    /\ calls = 0
    /\ halted = FALSE
    /\ dropped = FALSE
    /\ wild = {}
    /\ hookRet = NoHook
    /\ HostOff
    /\ SideOff
    /\ twin = BumpAllocator_uninit
    /\ twinLast = NoCall
    /\ twinInRange = TRUE
    /\ granted = NoneGranted

\* __gers_bump_init()
HookInit ==
    /\ ~halted
    /\ calls < MaxCalls
    /\ calls' = calls + 1
    /\ prev' = bump
    /\ granted' = NoneGranted
    /\ \E o \in initialize_outcomes(bump, heap) :
         /\ last' = Call("initialize", 0, 0, o.res, 0)
         /\ bump' = o.self
         /\ heap' = o.heap
         /\ wild' = wild \cup o.wild
         /\ halted' = (o.res \in Crashes)
         /\ hookRet' = IF o.res \in Crashes THEN HookTrap("__gers_bump_init")
                        ELSE HookReturn("__gers_bump_init", bump_init_status(o.res))
    /\ UNCHANGED <<debug_assertions, dropped, twin, twinLast, twinInRange>>
    /\ UNCHANGED <<hostVars, loadVars, sideVars>>

\* __gers_bump_reset()
HookReset ==
    /\ ~halted
    /\ calls < MaxCalls
    /\ calls' = calls + 1
    /\ prev' = bump
    /\ granted' = NoneGranted
    /\ LET r == BumpAllocator_reset(bump)
       IN  /\ last' = Call("reset", 0, 0, r.res, 0)
           /\ bump' = r.self
           /\ hookRet' = HookReturn("__gers_bump_reset", bump_reset_status(r.res))
    /\ UNCHANGED <<debug_assertions, heap, halted, dropped, wild, twin, twinLast, twinInRange>>
    /\ UNCHANGED <<hostVars, loadVars, sideVars>>

\* __gers_bump_alloc(size)
HookAlloc ==
    /\ ~halted
    /\ calls < MaxCalls
    /\ calls' = calls + 1
    /\ prev' = bump
    /\ \E size \in Sizes :
         \E r \in new_unchecked_outcomes(BumpAllocator_alloc_aligned(bump, size, debug_assertions)) :
            /\ last' = Call("alloc_aligned", size, 0, r.res, r.ptr)
            /\ bump' = IF r.res \in Crashes THEN bump ELSE r.self
            /\ halted' = (r.res \in Crashes)
            /\ granted' = IF r.res = "Ok" THEN Grant(granted, Range(r.ptr, size))
                           ELSE Ungranted(granted)
            /\ hookRet' = IF r.res \in Crashes THEN HookTrap("__gers_bump_alloc")
                           ELSE HookReturn("__gers_bump_alloc", bump_alloc_ptr(r))
    /\ UNCHANGED <<debug_assertions, heap, dropped, wild, twin, twinLast, twinInRange>>
    /\ UNCHANGED <<hostVars, loadVars, sideVars>>

NextHooks == HookInit \/ HookReset \/ HookAlloc

SpecHooks == InitHooks /\ [][NextHooks]_vars

(***************************************************************************)
(* gers_app: the host's dispatch to the plugins of the registry (main.rs). *)
(* A guest module is any module: what its hooks return is an input.        *)
(***************************************************************************)
LOCKSTEP_INTEVAL == 100             \* milliseconds

size_of_HelloEvent == 8             \* repr(C) { u32, u8, u16 }

align_of_HelloEvent == 4

WasmPage == 65536                   \* bytes of linear memory a guest exports

MaxFrames == 2

\* the time between two frames, in milliseconds
Deltas == {40, 210}

\* a loaded plugin: which handles load_plugin_dir bound, and its memory export
Plugin(u, i, r, a, e, m) ==
    [update_fn |-> u, event_init_fn |-> i, event_reset_fn |-> r,
     event_alloc2_fn |-> a, event_update_fn |-> e,
     memory |-> [ok |-> m, bytes |-> IF m THEN WasmPage ELSE 0]]

Profiles ==
    {Plugin(TRUE, TRUE, TRUE, TRUE, TRUE, TRUE),
     Plugin(TRUE, TRUE, FALSE, TRUE, TRUE, TRUE),
     Plugin(TRUE, TRUE, TRUE, FALSE, TRUE, TRUE),
     Plugin(TRUE, TRUE, TRUE, TRUE, FALSE, TRUE),
     Plugin(TRUE, TRUE, TRUE, TRUE, TRUE, FALSE),
     Plugin(FALSE, FALSE, FALSE, FALSE, FALSE, TRUE)}

\* the registries the dispatch loops are run on, in load order
Registries == {<<p>> : p \in Profiles} \cup {<<p, q>> : p \in Profiles, q \in Profiles}

\* what a hook returning a status can do: return a code, or trap
StatusOutcomes ==
    {[trap |-> FALSE, ret |-> s] : s \in {gers_error_t.Success, gers_error_t.AllocUninitialized}}
        \cup {[trap |-> TRUE, ret |-> 0]}

\* what an alloc hook can do: return an offset into the guest memory, or trap
AllocOutcomes ==
    {[trap |-> FALSE, ret |-> p] : p \in {0, 6, 8, WasmPage - 8, WasmPage - 4}}
        \cup {[trap |-> TRUE, ret |-> 0]}

\* __gers_update returns nothing
UpdateOutcomes == {[trap |-> FALSE, ret |-> 0], [trap |-> TRUE, ret |-> 0]}

\* one step the host took on a plugin: a hook call (argument, trap or returned
\* value) or the write of the payload (address, data written)
Event(hook, arg, o) == [hook |-> hook, arg |-> arg, trap |-> o.trap, ret |-> o.ret]

NoLog(reg) == [i \in 1..Len(reg) |-> <<>>]

HasTrap(lg) == \E i \in DOMAIN lg : \E k \in 1..Len(lg[i]) : lg[i][k].trap

HelloEvent(counter) == [data |-> counter, padding |-> 0, div |-> (counter \div 8) % 65536]

\* print_runtime_error writes the trap to the logger and returns
print_runtime_error_exits(flow) == "Exit"

print_runtime_error(flow) == flow

\* WasmPtr::is_null that sees no offset as null
is_null_never(offset) == FALSE

\* IsNull for WasmPtr
is_null(offset) == offset = 0

\* WasmPtr::deref_mut(memory, 0, length) gives no slice for a range that leaves the memory
deref_mut_unchecked(offset, bytes, length) == TRUE

deref_mut(offset, bytes, length) ==
    ~(offset + length > bytes \/ offset >= bytes)

\* the number of HelloEvent in the middle slice of align_to_mut (the guest
\* memory starts on a page boundary of the host)
align_to_mut(offset, length) ==
    LET skip == (align_of_HelloEvent - (offset % align_of_HelloEvent)) % align_of_HelloEvent
    IN  IF skip > length THEN 0 ELSE (length - skip) \div size_of_HelloEvent

\* the arguments of the event-update call
event_update_args_data_ptr(offset) == [event_type |-> 1, data_ptr |-> 0]

event_update_args(offset) == [event_type |-> 1, data_ptr |-> offset]

\* the for loop over the registry moves on to the next plugin, or the tick ends
next_plugin_breaks(i, n) == [pc |-> "tick_end", pi |-> 1]

next_plugin(i, n) ==
    IF i < n THEN [pc |-> "reset", pi |-> i + 1] ELSE [pc |-> "tick_end", pi |-> 1]

\* the instance of a plugin about which nothing is known: what its hooks
\* answer is an input, and its state is not followed
AnyGuest == [kind |-> "any", bump |-> BumpAllocator_uninit, heap |-> {}, memory |-> <<>>]

\* the instance of a plugin whose init, reset and alloc hooks are those of
\* gers_api: EVENT_DATA, the blocks it holds, and the payloads in its memory
ApiGuest == [kind |-> "api", bump |-> BumpAllocator_uninit, heap |-> {}, memory |-> <<>>]

\* what a hook of an instance about which nothing is known can do
AnyOutcomes(hook) ==
    CASE hook = "event_alloc2" -> AllocOutcomes
      [] hook = "update" -> UpdateOutcomes
      [] OTHER -> StatusOutcomes

\* what the call of a hook does in the instance g: trap or returned value, and
\* the instance after it
hook_outcomes(hook, arg, g, dbg) ==
    CASE g.kind = "api" /\ hook = "event_init" ->
           {[trap |-> o.res \in Crashes,
             ret |-> IF o.res \in Crashes THEN 0 ELSE bump_init_status(o.res),
             guest |-> [g EXCEPT !.bump = o.self, !.heap = o.heap]]
               : o \in initialize_outcomes(g.bump, g.heap)}
      [] g.kind = "api" /\ hook = "event_reset" ->
           {[trap |-> FALSE,
             ret |-> bump_reset_status(BumpAllocator_reset(g.bump).res),
             guest |-> [g EXCEPT !.bump = BumpAllocator_reset(g.bump).self]]}
      [] g.kind = "api" /\ hook = "event_alloc2" ->
           {[trap |-> r.res \in Crashes,
             ret |-> IF r.res \in Crashes THEN 0 ELSE bump_alloc_ptr(r),
             guest |-> [g EXCEPT !.bump = IF r.res \in Crashes THEN @ ELSE r.self]]
               : r \in new_unchecked_outcomes(BumpAllocator_alloc_aligned(g.bump, arg, dbg))}
      [] OTHER ->
           {[trap |-> o.trap, ret |-> o.ret, guest |-> g] : o \in AnyOutcomes(hook)}

\* Plugin::memory() of the plugin at place i of the registry: the memory of the
\* first instance
Plugin_memory_first(i) == 1

\* Plugin::memory() of the plugin at place i of the registry: the memory its
\* own instance exports
Plugin_memory(i) == i

\* the payload written at addr into the memory of the instance g
guest_write(g, addr, event) ==
    IF g.kind = "api"
    THEN [g EXCEPT !.memory = [a \in DOMAIN g.memory \cup {addr} |->
                                  IF a = addr THEN event ELSE g.memory[a]]]
    ELSE g

\* main() has loaded the registry and is about to run the event-init loop
InitHost ==
    /\ plugins \in Registries
    /\ pc = "init"
    /\ pi = 1
    /\ log = NoLog(plugins)
    /\ round = "init"
    /\ lockstep_timer = 0
    /\ hello_counter = 0
    /\ frames = 0
    /\ control_flow = "Poll"
    /\ wasm_ptr = 0
    /\ trapped = FALSE
    /\ dispatch_timer = 0
    /\ dispatch_counter = 0
    /\ frame_ticks = 0
    /\ init_failed = {}
    /\ guests = [i \in 1..Len(plugins) |-> AnyGuest]
    /\ loads = <<>>
    /\ SideOff
    /\ debug_assertions = FALSE
    /\ bump = BumpAllocator_uninit
    /\ heap = {}
    /\ last = NoCall
    /\ prev = bump
    /\ calls = 0
    /\ halted = FALSE
    /\ dropped = FALSE
    /\ wild = {}
    /\ hookRet = NoHook
    /\ twin = BumpAllocator_uninit
    /\ twinLast = NoCall
    /\ twinInRange = TRUE
    /\ granted = NoneGranted

\* the host calls a hook of plugins[pi] and notes the outcome; the call runs
\* in the instance of that plugin
CallHook(hook, arg, outcomes) ==
    \E o \in outcomes :
        /\ log' = [log EXCEPT ![pi] = Append(@, Event(hook, arg, o))]
        /\ control_flow' = IF o.trap THEN print_runtime_error(control_flow) ELSE control_flow
        /\ guests' = [guests EXCEPT ![pi] = o.guest]

\* the event-init loop before the event loop starts
EventInit ==
    /\ control_flow = "Poll"
    /\ pc = "init"
    /\ IF plugins[pi].event_init_fn
       THEN /\ CallHook("event_init", 0,
                         hook_outcomes("event_init", 0, guests[pi], debug_assertions))
            /\ init_failed' = IF \E e \in {log'[pi][Len(log'[pi])]} : e.trap \/ e.ret # 0
                               THEN init_failed \cup {pi}
                               ELSE init_failed
       ELSE UNCHANGED <<log, control_flow, init_failed, guests>>
    /\ IF pi < Len(plugins)
       THEN pi' = pi + 1 /\ pc' = pc
       ELSE pi' = 1 /\ pc' = "poll"
    /\ UNCHANGED <<plugins, round, lockstep_timer, hello_counter, frames, wasm_ptr, trapped>>
    /\ UNCHANGED tickVars
    /\ UNCHANGED <<bumpVars, loadVars, sideVars>>

\* Event::NewEvents: a frame starts
NewEvents ==
    /\ control_flow = "Poll"
    /\ pc = "poll"
    /\ frames < MaxFrames
    /\ frames' = frames + 1
    /\ \E delta_time \in Deltas : lockstep_timer' = lockstep_timer + delta_time
    /\ pc' = "update"
    /\ pi' = 1
    /\ round' = "update"
    /\ log' = NoLog(plugins)
    /\ trapped' = (trapped \/ (round = "tick" /\ HasTrap(log)))
    /\ UNCHANGED <<plugins, hello_counter, control_flow, wasm_ptr>>
    /\ dispatch_timer' = lockstep_timer'
    /\ dispatch_counter' = hello_counter
    /\ frame_ticks' = 0
    /\ UNCHANGED init_failed
    /\ UNCHANGED guests
    /\ UNCHANGED <<bumpVars, loadVars, sideVars>>

\* WindowEvent::CloseRequested
CloseRequested ==
    /\ control_flow = "Poll"
    /\ pc = "poll"
    /\ control_flow' = "Exit"
    /\ UNCHANGED <<plugins, pc, pi, log, round, lockstep_timer, hello_counter, frames,
                   wasm_ptr, trapped>>
    /\ UNCHANGED <<tickVars, init_failed>>
    /\ UNCHANGED guests
    /\ UNCHANGED <<bumpVars, loadVars, sideVars>>

\* Event::MainEventsCleared: the update dispatch
Update ==
    /\ control_flow = "Poll"
    /\ pc = "update"
    /\ IF plugins[pi].update_fn
       THEN CallHook("update", 0, hook_outcomes("update", 0, guests[pi], debug_assertions))
       ELSE UNCHANGED <<log, control_flow, guests>>
    /\ IF pi < Len(plugins)
       THEN pi' = pi + 1 /\ pc' = pc
       ELSE pi' = 1 /\ pc' = "lockstep"
    /\ UNCHANGED <<plugins, round, lockstep_timer, hello_counter, frames, wasm_ptr, trapped>>
    /\ UNCHANGED <<tickVars, init_failed>>
    /\ UNCHANGED <<bumpVars, loadVars, sideVars>>

\* the head of the lockstep loop: another tick, or the handler returns
Lockstep ==
    /\ control_flow = "Poll"
    /\ pc = "lockstep"
    /\ IF lockstep_timer >= LOCKSTEP_INTEVAL
       THEN /\ pc' = "reset"
            /\ round' = "tick"
            /\ log' = NoLog(plugins)
            /\ trapped' = (trapped \/ (round = "tick" /\ HasTrap(log)))
       ELSE /\ pc' = "poll"
            /\ UNCHANGED <<round, log, trapped>>
    /\ UNCHANGED <<plugins, pi, lockstep_timer, hello_counter, frames, control_flow, wasm_ptr>>
    /\ UNCHANGED <<tickVars, init_failed>>
    /\ UNCHANGED guests
    /\ UNCHANGED <<bumpVars, loadVars, sideVars>>

\* the reset hook of plugins[pi]
EventReset ==
    /\ control_flow = "Poll"
    /\ pc = "reset"
    /\ IF plugins[pi].event_reset_fn
       THEN CallHook("event_reset", 0,
                     hook_outcomes("event_reset", 0, guests[pi], debug_assertions))
       ELSE UNCHANGED <<log, control_flow, guests>>
    /\ pc' = "alloc"
    /\ UNCHANGED <<plugins, pi, round, lockstep_timer, hello_counter, frames, wasm_ptr, trapped>>
    /\ UNCHANGED <<tickVars, init_failed>>
    /\ UNCHANGED <<bumpVars, loadVars, sideVars>>

\* the alloc hook of plugins[pi], and the write of the payload at the address it returned
EventAlloc ==
    /\ control_flow = "Poll"
    /\ pc = "alloc"
    /\ IF plugins[pi].event_alloc2_fn /\ plugins[pi].memory.ok
       THEN \E o \in hook_outcomes("event_alloc2", size_of_HelloEvent, guests[pi],
                                    debug_assertions) :
              LET data_size == size_of_HelloEvent
                  called == Append(log[pi], Event("event_alloc2", data_size, o))
                  written == /\ ~o.trap
                             /\ ~is_null(o.ret)
                             /\ deref_mut(o.ret, plugins[pi].memory.bytes, data_size)
                             /\ align_to_mut(o.ret, data_size) > 0
                  write == Event("write", o.ret,
                                 [trap |-> FALSE, ret |-> HelloEvent(hello_counter).data])
              IN  /\ log' = [log EXCEPT ![pi] = IF written THEN Append(called, write) ELSE called]
                  /\ control_flow' = IF o.trap THEN print_runtime_error(control_flow)
                                     ELSE control_flow
                  /\ wasm_ptr' = IF written THEN o.ret ELSE 0
                  /\ guests' = IF written
                                THEN [[guests EXCEPT ![pi] = o.guest]
                                         EXCEPT ![Plugin_memory(pi)] =
                                             guest_write(@, o.ret, HelloEvent(hello_counter))]
                                ELSE [guests EXCEPT ![pi] = o.guest]
                  /\ IF written
                     THEN pc' = "event_update" /\ pi' = pi
                     ELSE pc' = next_plugin(pi, Len(plugins)).pc
                          /\ pi' = next_plugin(pi, Len(plugins)).pi
       ELSE /\ pc' = next_plugin(pi, Len(plugins)).pc
            /\ pi' = next_plugin(pi, Len(plugins)).pi
            /\ UNCHANGED <<log, control_flow, wasm_ptr, guests>>
    /\ UNCHANGED <<plugins, round, lockstep_timer, hello_counter, frames, trapped>>
    /\ UNCHANGED <<tickVars, init_failed>>
    /\ UNCHANGED <<bumpVars, loadVars, sideVars>>

\* the event-update hook of plugins[pi]
EventUpdate ==
    /\ control_flow = "Poll"
    /\ pc = "event_update"
    /\ IF plugins[pi].event_update_fn
       THEN CallHook("event_update", event_update_args(wasm_ptr).data_ptr,
                     hook_outcomes("event_update", event_update_args(wasm_ptr).data_ptr,
                                   guests[pi], debug_assertions))
       ELSE UNCHANGED <<log, control_flow, guests>>
    /\ wasm_ptr' = 0
    /\ pc' = next_plugin(pi, Len(plugins)).pc
    /\ pi' = next_plugin(pi, Len(plugins)).pi
    /\ UNCHANGED <<plugins, round, lockstep_timer, hello_counter, frames, trapped>>
    /\ UNCHANGED <<tickVars, init_failed>>
    /\ UNCHANGED <<bumpVars, loadVars, sideVars>>

\* the tail of the lockstep loop, dropping what is left of the accumulated time
TickEnd_zeroes_timer ==
    /\ control_flow = "Poll"
    /\ pc = "tick_end"
    /\ hello_counter' = hello_counter + 1
    /\ lockstep_timer' = 0
    /\ pc' = "lockstep"
    /\ UNCHANGED <<plugins, pi, log, round, frames, control_flow, wasm_ptr, trapped>>
    /\ frame_ticks' = frame_ticks + 1
    /\ UNCHANGED <<dispatch_timer, dispatch_counter, init_failed>>
    /\ UNCHANGED guests
    /\ UNCHANGED <<bumpVars, loadVars, sideVars>>

\* the tail of the lockstep loop
TickEnd ==
    /\ control_flow = "Poll"
    /\ pc = "tick_end"
    /\ hello_counter' = hello_counter + 1
    /\ lockstep_timer' = lockstep_timer - LOCKSTEP_INTEVAL
    /\ pc' = "lockstep"
    /\ UNCHANGED <<plugins, pi, log, round, frames, control_flow, wasm_ptr, trapped>>
    /\ frame_ticks' = frame_ticks + 1
    /\ UNCHANGED <<dispatch_timer, dispatch_counter, init_failed>>
    /\ UNCHANGED guests
    /\ UNCHANGED <<bumpVars, loadVars, sideVars>>

NextHost ==
    \/ EventInit
    \/ NewEvents
    \/ CloseRequested
    \/ Update
    \/ Lockstep
    \/ EventReset
    \/ EventAlloc
    \/ EventUpdate
    \/ TickEnd

SpecHost == InitHost /\ [][NextHost]_vars

\* plugins built on the hooks of gers_api, with and without the init hook
\* exported; the system allocator of a guest takes its blocks from the linear
\* memory of the instance, so the exported memory holds every address it returns
ApiProfiles ==
    {[p EXCEPT !.memory.bytes = USIZE] :
        p \in {Plugin(TRUE, TRUE, TRUE, TRUE, TRUE, TRUE),
               Plugin(TRUE, FALSE, TRUE, TRUE, TRUE, TRUE)}}

ApiRegistries ==
    {<<p>> : p \in ApiProfiles} \cup {<<p, q>> : p \in ApiProfiles, q \in ApiProfiles}

\* main() has loaded plugins built on the hooks of gers_api and is about to run
\* the event-init loop
InitApi ==
    /\ plugins \in ApiRegistries
    /\ guests = [i \in 1..Len(plugins) |-> ApiGuest]
    /\ debug_assertions \in BOOLEAN
    /\ pc = "init"
    /\ pi = 1
    /\ log = NoLog(plugins)
    /\ round = "init"
    /\ lockstep_timer = 0
    /\ hello_counter = 0
    /\ frames = 0
    /\ control_flow = "Poll"
    /\ wasm_ptr = 0
    /\ trapped = FALSE
    /\ dispatch_timer = 0
    /\ dispatch_counter = 0
    /\ frame_ticks = 0
    /\ init_failed = {}
    /\ loads = <<>>
    /\ SideOff
    /\ bump = BumpAllocator_uninit
    /\ heap = {}
    /\ last = NoCall
    /\ prev = bump
    /\ calls = 0
    /\ halted = FALSE
    /\ dropped = FALSE
    /\ wild = {}
    /\ hookRet = NoHook
    /\ twin = BumpAllocator_uninit
    /\ twinLast = NoCall
    /\ twinInRange = TRUE
    /\ granted = NoneGranted

SpecApi == InitApi /\ [][NextHost]_vars

(***************************************************************************)
(* gers_plugins: loading a plugin directory into the registry (lib.rs).    *)
(***************************************************************************)
MaxLoads == 3

PluginError == {"LoadFile", "Deserialize", "Compile", "Instantiate", "FunctionType"}

\* how a module exports a name: not at all, as a function of the signature the
\* host expects, as a function of another signature, or as something that is
\* not a function
ExportKinds == {"missing", "fn", "fn_other", "not_fn"}

Exports(u, i, r, a2, a, e) ==
    [__gers_update |-> u, __gers_bump_init |-> i, __gers_bump_reset |-> r,
     __gers_bump_alloc |-> a2, __gers_event_alloc |-> a, __gers_event_update |-> e]

\* a plugin directory: plugin.toml, main.wasm and what the module exports
Dir(name, descriptor, wasm, exports, memory) ==
    [name |-> name, descriptor |-> descriptor, wasm |-> wasm, exports |-> exports,
     memory |-> memory]

AllFn == Exports("fn", "fn", "fn", "fn", "fn", "fn")

Dirs ==
    {Dir("core", "ok", "ok", AllFn, TRUE),
     Dir("bare", "ok", "ok",
         Exports("missing", "missing", "missing", "missing", "missing", "missing"), FALSE),
     Dir("events", "ok", "ok", Exports("missing", "fn", "fn", "fn", "missing", "fn"), TRUE),
     Dir("nodesc", "missing", "ok", AllFn, TRUE),
     Dir("badtoml", "malformed", "ok", AllFn, TRUE),
     Dir("nowasm", "ok", "missing", AllFn, TRUE),
     Dir("badwasm", "ok", "invalid", AllFn, TRUE),
     Dir("nolink", "ok", "unlinked", AllFn, TRUE),
     Dir("reset_sig", "ok", "ok", Exports("fn", "fn", "fn_other", "fn", "fn", "fn"), TRUE),
     Dir("update_sig", "ok", "ok", Exports("fn_other", "fn", "fn", "fn", "fn", "fn"), TRUE),
     Dir("alloc_global", "ok", "ok", Exports("fn", "fn", "fn", "not_fn", "fn", "fn"), TRUE),
     Dir("update_global", "ok", "ok", Exports("not_fn", "fn", "fn", "fn", "fn", "fn"), TRUE)}

\* get_func!(exports, name): the handle, or the error that ends the load
get_func(kind) ==
    CASE kind = "missing" -> [err |-> FALSE, some |-> FALSE]
      [] kind = "not_fn" -> [err |-> TRUE, some |-> FALSE]
      [] OTHER -> [err |-> FALSE, some |-> TRUE]

\* get_func!(exports, name, args, ret): the same, with the signature checked
get_func_native(kind) ==
    CASE kind = "missing" -> [err |-> FALSE, some |-> FALSE]
      [] kind = "fn" -> [err |-> FALSE, some |-> TRUE]
      [] OTHER -> [err |-> TRUE, some |-> FALSE]

\* the handles load_plugin_dir binds, in the order it binds them
bind_hooks(exports) ==
    <<get_func(exports.__gers_update),
      get_func_native(exports.__gers_bump_init),
      get_func_native(exports.__gers_bump_reset),
      get_func_native(exports.__gers_bump_alloc),
      get_func_native(exports.__gers_event_alloc),
      get_func_native(exports.__gers_event_update)>>

\* Plugins::load_plugin_dir on the registry reg; instance names the wasmer
\* Instance the call makes.  The new plugin goes to the front.
load_plugin_dir_push_front(reg, dir, instance) ==
    LET h == bind_hooks(dir.exports)
    IN  CASE dir.descriptor = "missing" -> [res |-> "LoadFile", plugins |-> reg]
          [] dir.descriptor = "malformed" -> [res |-> "Deserialize", plugins |-> reg]
          [] dir.wasm = "missing" -> [res |-> "LoadFile", plugins |-> reg]
          [] dir.wasm = "invalid" -> [res |-> "Compile", plugins |-> reg]
          [] dir.wasm = "unlinked" -> [res |-> "Instantiate", plugins |-> reg]
          [] \E k \in 1..Len(h) : h[k].err -> [res |-> "FunctionType", plugins |-> reg]
          [] OTHER ->
               [res |-> "Ok",
                plugins |-> <<[instance |-> instance, meta |-> dir.name,
                               event_alloc_fn |-> h[5].some]
                              @@ Plugin(h[1].some, h[2].some, h[3].some, h[4].some,
                                        h[6].some, dir.memory)>> \o reg]

\* Plugins::load_plugin_dir on the registry reg; instance names the wasmer
\* Instance the call makes
load_plugin_dir(reg, dir, instance) ==
    LET h == bind_hooks(dir.exports)
    IN  CASE dir.descriptor = "missing" -> [res |-> "LoadFile", plugins |-> reg]
          [] dir.descriptor = "malformed" -> [res |-> "Deserialize", plugins |-> reg]
          [] dir.wasm = "missing" -> [res |-> "LoadFile", plugins |-> reg]
          [] dir.wasm = "invalid" -> [res |-> "Compile", plugins |-> reg]
          [] dir.wasm = "unlinked" -> [res |-> "Instantiate", plugins |-> reg]
          [] \E k \in 1..Len(h) : h[k].err -> [res |-> "FunctionType", plugins |-> reg]
          [] OTHER ->
               [res |-> "Ok",
                plugins |-> Append(reg, [instance |-> instance, meta |-> dir.name,
                                         event_alloc_fn |-> h[5].some]
                                        @@ Plugin(h[1].some, h[2].some, h[3].some, h[4].some,
                                                  h[6].some, dir.memory))]

\* Plugins::iter_plugins
iter_plugins(reg) == reg

\* a program that holds a registry from Plugins::new() and calls load_plugin_dir on it
InitLoad ==
    /\ debug_assertions = FALSE
    /\ bump = BumpAllocator_uninit
    /\ heap = {}
    /\ last = NoCall
    /\ prev = bump
    /\ calls = 0
    /\ halted = FALSE
    /\ dropped = FALSE
    /\ wild = {}
    /\ hookRet = NoHook
    /\ twin = BumpAllocator_uninit
    /\ twinLast = NoCall
    /\ twinInRange = TRUE
    /\ granted = NoneGranted
    /\ HostOff
    /\ SideOff
    /\ loads = <<>>

LoadPluginDir ==
    /\ pc = "off"
    /\ Len(loads) < MaxLoads
    /\ \E dir \in Dirs :
         LET r == load_plugin_dir(plugins, dir, Len(loads) + 1)
         IN  /\ plugins' = r.plugins
             /\ loads' = Append(loads, [dir |-> dir, res |-> r.res])
    /\ UNCHANGED <<pc, pi, log, round, lockstep_timer, hello_counter, frames, control_flow,
                   wasm_ptr, trapped, tickVars, init_failed, guests>>
    /\ UNCHANGED <<bumpVars, sideVars>>

NextLoad == LoadPluginDir

SpecLoad == InitLoad /\ [][NextLoad]_vars

\* main() starts with an empty registry
InitMain ==
    /\ debug_assertions = FALSE
    /\ bump = BumpAllocator_uninit
    /\ heap = {}
    /\ last = NoCall
    /\ prev = bump
    /\ calls = 0
    /\ halted = FALSE
    /\ dropped = FALSE
    /\ wild = {}
    /\ hookRet = NoHook
    /\ twin = BumpAllocator_uninit
    /\ twinLast = NoCall
    /\ twinInRange = TRUE
    /\ granted = NoneGranted
    /\ plugins = <<>>
    /\ pc = "main"
    /\ pi = 1
    /\ log = <<>>
    /\ round = "none"
    /\ lockstep_timer = 0
    /\ hello_counter = 0
    /\ frames = 0
    /\ control_flow = "Poll"
    /\ wasm_ptr = 0
    /\ trapped = FALSE
    /\ dispatch_timer = 0
    /\ dispatch_counter = 0
    /\ frame_ticks = 0
    /\ init_failed = {}
    /\ guests = <<>>
    /\ loads = <<>>
    /\ SideOff

\* main() loads the directory plugins/core, and returns if that fails
MainLoad ==
    /\ pc = "main"
    /\ \E dir \in Dirs :
         LET r == load_plugin_dir(plugins, dir, 1)
         IN  /\ plugins' = r.plugins
             /\ loads' = Append(loads, [dir |-> dir, res |-> r.res])
             /\ pc' = IF r.res = "Ok" THEN "init" ELSE "returned"
             /\ log' = NoLog(r.plugins)
             /\ guests' = [i \in 1..Len(r.plugins) |-> AnyGuest]
             /\ round' = IF r.res = "Ok" THEN "init" ELSE round
    /\ UNCHANGED <<pi, lockstep_timer, hello_counter, frames, control_flow,
                   wasm_ptr, trapped, tickVars, init_failed>>
    /\ UNCHANGED <<bumpVars, sideVars>>

NextMain == MainLoad \/ NextHost

SpecMain == InitMain /\ [][NextMain]_vars

(***************************************************************************)
(* gers_events and gers_core: the type tag and the guest's event hooks.    *)
(***************************************************************************)
I32_MIN == -2147483647 - 1

I32_MAX == 2147483647

\* the tags the event-update hook is called with
EventTags == {I32_MIN, -1, 0, 1, 2, 255, I32_MAX}

\* the addresses the guest's Vec can get from its allocator
CoreAddrs == {1024, 2050}

\* the addresses the event-update hook is called with
CorePtrs == {0, 1, 1020, 1024, 1028, 2050}

\* the sizes the event-alloc hook is called with
CoreSizes == {0, 4, size_of_HelloEvent, 16}

\* From<i32> for EventType, with 0 as the only no-op tag
EventType_from_zero_is_noop(value) == IF value = 0 THEN "NoOp" ELSE "Hello"

\* From<i32> for EventType
EventType_from(value) == IF value = 1 THEN "Hello" ELSE "NoOp"

\* Vec::new(): no allocation, a dangling pointer of the alignment of u8
Vec_new == [ptr |-> 1, len |-> 0, cap |-> 0]

\* what a call of a gers_core hook did: deref says whether it looked at the
\* pointer it was given or at the memory behind it
CoreCall(hook, tag, ptr, trap, ret, deref) ==
    [hook |-> hook, tag |-> tag, ptr |-> ptr, trap |-> trap, ret |-> ret, deref |-> deref]

\* __gers_event_update(event_type, data_ptr) of gers_core, EVENT_DATA being vec
core_event_update(event_type, data_ptr, vec) ==
    IF EventType_from(event_type) = "NoOp"
    THEN CoreCall("__gers_event_update", event_type, data_ptr, FALSE, 0, FALSE)
    ELSE LET offset == data_ptr - vec.ptr
             payload_size == size_of_HelloEvent
             \* EVENT_DATA[index..payload_size] panics for a range that is not in the Vec
             panics == offset > payload_size \/ payload_size > vec.len
             \* align_to::<HelloEvent>() of the payload_size - index bytes at data_ptr
             items == IF data_ptr % align_of_HelloEvent = 0 /\ offset = 0 THEN 1 ELSE 0
         IN  CASE data_ptr = 0 ->
                    CoreCall("__gers_event_update", event_type, data_ptr, FALSE, 1, TRUE)
               [] offset < 0 ->
                    CoreCall("__gers_event_update", event_type, data_ptr, FALSE, 1, TRUE)
               [] panics ->
                    CoreCall("__gers_event_update", event_type, data_ptr, TRUE, 0, TRUE)
               [] items = 0 ->
                    CoreCall("__gers_event_update", event_type, data_ptr, FALSE, 1, TRUE)
               [] OTHER ->
                    CoreCall("__gers_event_update", event_type, data_ptr, FALSE, 0, TRUE)

\* the tick counters the payload is built for
Counters == (0..63) \cup {255, 256, 65535, 65536, 524287, 524288, 524330, I32_MAX}

\* what the byte between padding and div can hold
PadBytes == {0, 170}

Byte(n, k) == (n \div (256 ^ k)) % 256

\* the bytes of a HelloEvent, repr(C), 8 of them and little-endian: data at 0,
\* padding at 4, a byte of layout padding at 5, div at 6
HelloEvent_bytes(event, pad) ==
    <<Byte(event.data, 0), Byte(event.data, 1), Byte(event.data, 2), Byte(event.data, 3),
      event.padding, pad, Byte(event.div, 0), Byte(event.div, 1)>>

\* the HelloEvent read from 8 bytes as if div came right after padding
HelloEvent_from_bytes_packed(bytes) ==
    [data |-> bytes[1] + 256 * bytes[2] + 65536 * bytes[3] + 16777216 * bytes[4],
     padding |-> bytes[5],
     div |-> bytes[6] + 256 * bytes[7]]

\* the HelloEvent that 8 bytes are, read through the same layout
HelloEvent_from_bytes(bytes) ==
    [data |-> bytes[1] + 256 * bytes[2] + 65536 * bytes[3] + 16777216 * bytes[4],
     padding |-> bytes[5],
     div |-> bytes[7] + 256 * bytes[8]]

\* CmdReader::read::<HelloEvent>(ptr): nothing for a null pointer
CmdReader_read(ptr, bytes) ==
    IF ptr = 0
    THEN [some |-> FALSE, event |-> HelloEvent(0)]
    ELSE [some |-> TRUE, event |-> HelloEvent_from_bytes(bytes)]

NoPayload ==
    [stage |-> "none", counter |-> 0, event |-> HelloEvent(0), ptr |-> 0,
     buffer |-> <<0, 0, 0, 0, 0, 0, 0, 0>>,
     read |-> [some |-> FALSE, event |-> HelloEvent(0)]]

\* the guest module of gers_core has been instantiated
InitCore ==
    /\ debug_assertions = FALSE
    /\ bump = BumpAllocator_uninit
    /\ heap = {}
    /\ last = NoCall
    /\ prev = bump
    /\ calls = 0
    /\ halted = FALSE
    /\ dropped = FALSE
    /\ wild = {}
    /\ hookRet = NoHook
    /\ twin = BumpAllocator_uninit
    /\ twinLast = NoCall
    /\ twinInRange = TRUE
    /\ granted = NoneGranted
    /\ HostOff
    /\ core_event_data = Vec_new
    /\ core_last = CoreCall("none", 0, 0, FALSE, 0, FALSE)
    /\ payload = NoPayload

\* __gers_event_alloc(size): EVENT_DATA.resize(size, 0), then its pointer
CoreEventAlloc ==
    /\ \E size \in CoreSizes :
         \E addr \in CoreAddrs :
            LET vec == IF size <= core_event_data.cap
                       THEN [core_event_data EXCEPT !.len = size]
                       ELSE [ptr |-> addr, len |-> size, cap |-> size]
            IN  /\ core_event_data' = vec
                /\ core_last' = CoreCall("__gers_event_alloc", size, 0, FALSE, vec.ptr, FALSE)
    /\ UNCHANGED <<bumpVars, hostVars, loadVars, payload>>

\* __gers_event_update(event_type, data_ptr)
CoreEventUpdate ==
    /\ \E event_type \in EventTags :
         \E data_ptr \in CorePtrs :
            core_last' = core_event_update(event_type, data_ptr, core_event_data)
    /\ UNCHANGED core_event_data
    /\ UNCHANGED <<bumpVars, hostVars, loadVars, payload>>

NextCore == CoreEventAlloc \/ CoreEventUpdate

SpecCore == InitCore /\ [][NextCore]_vars

(***************************************************************************)
(* The payload: HelloEvent as the host writes it and as a guest reads it.  *)
(***************************************************************************)
\* a tick starts with some value of the counter
InitPayload ==
    /\ debug_assertions = FALSE
    /\ bump = BumpAllocator_uninit
    /\ heap = {}
    /\ last = NoCall
    /\ prev = bump
    /\ calls = 0
    /\ halted = FALSE
    /\ dropped = FALSE
    /\ wild = {}
    /\ hookRet = NoHook
    /\ twin = BumpAllocator_uninit
    /\ twinLast = NoCall
    /\ twinInRange = TRUE
    /\ granted = NoneGranted
    /\ HostOff
    /\ core_event_data = Vec_new
    /\ core_last = CoreCall("none", 0, 0, FALSE, 0, FALSE)
    /\ \E c \in Counters : payload = [NoPayload EXCEPT !.counter = c]

\* the host builds event_data from hello_counter
BuildPayload ==
    /\ payload.stage = "none"
    /\ payload' = [payload EXCEPT !.stage = "built", !.event = HelloEvent(payload.counter)]
    /\ UNCHANGED <<bumpVars, hostVars, loadVars, coreVars>>

\* the host writes event_data into the guest's buffer: data_slice[0] = event_data.clone()
WritePayload ==
    /\ payload.stage = "built"
    /\ \E pad \in PadBytes :
         \E ptr \in {8, WasmPage - size_of_HelloEvent} :
            payload' = [payload EXCEPT !.stage = "written", !.ptr = ptr,
                                       !.buffer = HelloEvent_bytes(payload.event, pad)]
    /\ UNCHANGED <<bumpVars, hostVars, loadVars, coreVars>>

\* the guest reads the buffer
ReadPayload ==
    /\ payload.stage = "written"
    /\ payload' = [payload EXCEPT !.stage = "read",
                                  !.read = CmdReader_read(payload.ptr, payload.buffer)]
    /\ UNCHANGED <<bumpVars, hostVars, loadVars, coreVars>>

NextPayload == BuildPayload \/ WritePayload \/ ReadPayload

SpecPayload == InitPayload /\ [][NextPayload]_vars

TypeOK ==
    /\ bump.cursor \in 0..USIZE_MAX
    /\ calls \in 0..MaxCalls

(***************************************************************************)
(* Properties of the allocator.                                            *)
(***************************************************************************)
\* the smallest multiple of align that is >= addr, as a number (no machine word)
SmallestAligned(addr, align) == addr + ((align - (addr % align)) % align)

AllocOps == {"alloc", "alloc_aligned"}

\* C1: every successful alloc(size, align), align a power of two, returns the
\* smallest address >= base + cursor-before that is a multiple of align, and
\* leaves the cursor at (returned address - base) + size.
C1_AllocAlignedAndBumped ==
    (last.op = "alloc" /\ last.res = "Ok" /\ is_power_of_two(last.align)) =>
        /\ last.ptr = SmallestAligned(prev.block.ptr + prev.cursor, last.align)
        /\ bump.cursor = (last.ptr - prev.block.ptr) + last.size

\* C2: an alloc or alloc_aligned that returns an error leaves the cursor, the
\* block and the initialized flag exactly as they were before the call.
C2_AllocErrorLeavesState ==
    (last.op \in AllocOps /\ last.res \in BumpError) => bump = prev

C2_Witness ==
    /\ last.op = "alloc"
    /\ last.res = "NoSpace"
    /\ prev.cursor > 0
    /\ bump = prev

\* C3: on an initialized allocator, alloc with a power-of-two align fails with
\* NoSpace when aligned offset + size >= BLOCK_SIZE and succeeds when it is
\* <= BLOCK_SIZE - 1.
C3_BoundaryPolicy ==
    (last.op = "alloc" /\ prev.initialzed /\ is_power_of_two(last.align)) =>
        LET base == prev.block.ptr
            end  == (SmallestAligned(base + prev.cursor, last.align) - base) + last.size
        IN  /\ end >= BLOCK_SIZE => last.res = "NoSpace"
            /\ end <= BLOCK_SIZE - 1 => last.res = "Ok"

\* C4: on an allocator that is not initialized, alloc, alloc_aligned and reset
\* return Uninitialized, leave it uninitialized with cursor 0, and do not crash.
C4_UninitializedCallsFail ==
    (~prev.initialzed /\ last.op \in AllocOps \cup {"reset"}) =>
        /\ last.res = "Uninitialized"
        /\ bump = BumpAllocator_uninit
        /\ ~halted

C4_Witness ==
    /\ ~prev.initialzed
    /\ last.op = "reset"
    /\ last.pre \in AllocOps
    /\ last.res = "Uninitialized"
    /\ calls >= 3

\* C5: a successful reset sets the cursor to 0, and the alloc(size, align)
\* made right after it returns the outcome and the address that alloc(size,
\* align) returns as the first call on the fresh allocator over that block.
C5_ResetRestoresCapacity ==
    /\ (last.op = "reset" /\ last.res = "Ok") => bump.cursor = 0
    /\ (last.op = "alloc" /\ last.pre = "reset" /\ prev.initialzed) =>
          \E f \in new_unchecked_outcomes(
                    BumpAllocator_alloc(BumpAllocator_new(prev.block), last.size,
                                        last.align, debug_assertions)) :
             /\ last.res = f.res
             /\ last.ptr = f.ptr

C5_Witness ==
    /\ last.op = "alloc"
    /\ last.pre = "reset"
    /\ last.res = "Ok"
    /\ prev.initialzed
    /\ calls >= 3
    /\ last.ptr = prev.block.ptr

\* C6: alloc on an initialized allocator with an align that is 0 or not a
\* power of two fails with BadRequest and does not change the cursor.
C6_BadAlignRejected ==
    (last.op = "alloc" /\ prev.initialzed /\ ~is_power_of_two(last.align)) =>
        /\ last.res = "BadRequest"
        /\ bump.cursor = prev.cursor

\* C7: in every reachable state 0 <= cursor <= block.size.
C7_CursorInBlock ==
    /\ 0 <= bump.cursor
    /\ bump.cursor <= bump.block.size

C7_Witness ==
    /\ bump.cursor = BLOCK_SIZE - 1
    /\ last.op = "alloc"
    /\ last.res = "NoSpace"

\* the offset from the block base of the address a call returned
Offset(call, self) == call.ptr - self.block.ptr

\* C8 as stated: two fresh allocators at different base addresses, sent the
\* same alloc requests with any power-of-two align, return the same
\* success/failure outcome and the same offset for every request.
C8_SameOffsetsAnyAlign ==
    last.op = "alloc" =>
        /\ (last.res = "Ok") <=> (twinLast.res = "Ok")
        /\ last.res = "Ok" => Offset(last, bump) = Offset(twinLast, twin)

\* C8 amended: the same holds when every request of the sequence has a
\* power-of-two align no larger than BLOCK_SIZE.
C8_SameOffsetsAlignInBlock ==
    (last.op = "alloc" /\ twinInRange) =>
        /\ (last.res = "Ok") <=> (twinLast.res = "Ok")
        /\ last.res = "Ok" => Offset(last, bump) = Offset(twinLast, twin)

C8_Witness ==
    /\ twinInRange
    /\ bump.block.ptr # twin.block.ptr
    /\ last.res = "Ok"
    /\ twinLast.res = "Ok"
    /\ last.align = 8
    /\ Offset(last, bump) > 0
    /\ calls >= 2

\* C9: alloc_aligned(size) behaves as alloc(size, A), A being one machine word
\* when size <= one word and two machine words when size > one word.
C9_AllocAlignedIsAllocWord ==
    last.op = "alloc_aligned" =>
        LET A == IF last.size <= size_of_usize THEN size_of_usize ELSE 2 * size_of_usize
        IN  \E r \in new_unchecked_outcomes(
                      BumpAllocator_alloc(prev, last.size, A, debug_assertions)) :
               /\ last.res = r.res
               /\ last.ptr = r.ptr
               /\ bump = IF r.res \in Crashes THEN prev ELSE r.self

C9_Witness ==
    /\ last.op = "alloc_aligned"
    /\ last.res = "Ok"
    /\ last.size = size_of_usize
    /\ prev.cursor % (2 * size_of_usize) # 0
    /\ last.ptr = prev.block.ptr + prev.cursor

\* C10: a successful initialize leaves the allocator initialized with cursor 0
\* and a block of BLOCK_SIZE bytes; an initialized allocator never becomes
\* uninitialized again, and its alloc and reset never return Uninitialized.
C10_InitializeTurnsLive ==
    /\ (last.op = "initialize" /\ last.res = "Ok") =>
          /\ bump.initialzed
          /\ bump.cursor = 0
          /\ bump.block.size = BLOCK_SIZE
    /\ prev.initialzed => bump.initialzed
    /\ (prev.initialzed /\ last.op \in AllocOps \cup {"reset"}) =>
          last.res # "Uninitialized"

C10_Witness ==
    /\ last.op = "initialize"
    /\ last.res = "Ok"
    /\ prev.initialzed
    /\ prev.cursor > 0
    /\ bump.block.ptr # prev.block.ptr

\* the blocks an allocator holds from the system allocator
Held(self, isDropped) == IF self.initialzed /\ ~isDropped THEN {self.block.ptr} ELSE {}

\* C11: every block acquired by new or initialize is released exactly once, when
\* a later initialize replaces it or when the allocator is dropped: the only
\* block held is the live allocator's current one, none is held after the drop,
\* no acquired block is handed to the deallocator again, and alloc, alloc_aligned
\* and reset release nothing.
C11_BlocksReleasedOnce ==
    /\ heap = Held(bump, dropped)
    /\ wild \subseteq {RawBlock_dangling.ptr}
    /\ last.op \in AllocOps \cup {"reset"} => heap = Held(prev, FALSE)

C11_Witness ==
    /\ last.op = "drop"
    /\ last.pre = "initialize"
    /\ prev.initialzed
    /\ dropped
    /\ heap = {}
    /\ wild = {}
    /\ calls >= 3

\* C12: reset on an initialized allocator changes only the cursor: the block and
\* the initialized flag stay, and no block is released or acquired.
C12_ResetChangesOnlyCursor ==
    (last.op = "reset" /\ prev.initialzed) =>
        /\ bump.block = prev.block
        /\ bump.initialzed
        /\ heap = {prev.block.ptr}

C12_Witness ==
    /\ last.op = "reset"
    /\ prev.initialzed
    /\ prev.cursor > 0
    /\ bump.cursor = 0
    /\ bump.block = prev.block

(***************************************************************************)
(* Properties of the guest hooks.                                          *)
(***************************************************************************)
\* C19: __gers_bump_alloc returns null exactly when alloc_aligned fails, and
\* otherwise a non-null address inside the arena; a call that returns null
\* leaves the allocator as it was.
C19_AllocHookNullOnFailure ==
    (hookRet.hook = "__gers_bump_alloc" /\ ~hookRet.trap) =>
        /\ hookRet.val = 0 <=> last.res \in BumpError
        /\ hookRet.val # 0 =>
              /\ prev.block.ptr <= hookRet.val
              /\ hookRet.val < prev.block.ptr + prev.block.size
        /\ hookRet.val = 0 => bump = prev

\* C20: __gers_bump_init returns 0 exactly when initialize succeeded, 11 when the
\* system allocator refused and the BadAlloc code for BadRequest;
\* __gers_bump_reset returns 0 exactly when the allocator is initialized and 13
\* when it is not; the two hooks return no other value.
C20_StatusCodes ==
    /\ (hookRet.hook = "__gers_bump_init" /\ ~hookRet.trap) =>
          /\ hookRet.val = 0 <=> (last.res = "Ok" /\ bump.initialzed)
          /\ last.res = "OutOfMemory" => hookRet.val = 11
          /\ hookRet.val \in {0, gers_error_t.BadAlloc, 11}
    /\ bump_init_status("BadRequest") = gers_error_t.BadAlloc
    /\ (hookRet.hook = "__gers_bump_reset" /\ ~hookRet.trap) =>
          /\ hookRet.val = 0 <=> prev.initialzed
          /\ ~prev.initialzed => hookRet.val = 13
          /\ hookRet.val \in {0, 13}

C20_Witness ==
    /\ hookRet = HookReturn("__gers_bump_reset", 13)
    /\ last.pre = "initialize"
    /\ ~prev.initialzed
    /\ heap = {}

(***************************************************************************)
(* Properties of the host's dispatch.                                      *)
(***************************************************************************)
\* the place of a step in a tick
Rank(hook) ==
    CASE hook = "event_reset" -> 1
      [] hook = "event_alloc2" -> 2
      [] hook = "write" -> 3
      [] hook = "event_update" -> 4
      [] OTHER -> 0

Has(t, hook) == \E k \in 1..Len(t) : t[k].hook = hook

\* the running round is over for plugin q
Done(q) == pc \in {"poll", "lockstep", "tick_end"} \/ (pc \in {"init", "update", "reset", "alloc", "event_update"} /\ q < pi)

\* plugin p got every step of a tick that its own exports and answers call for
Complete(p, t) ==
    /\ p.event_reset_fn => Has(t, "event_reset")
    /\ (p.event_alloc2_fn /\ p.memory.ok) => Has(t, "event_alloc2")
    /\ (Has(t, "write") /\ p.event_update_fn) => Has(t, "event_update")

\* C13: per plugin and tick the host's steps come in the order reset hook, alloc
\* hook, payload write, event-update hook, each at most once; event-update gets
\* the address the alloc hook returned in that tick, and no reset comes between
\* the alloc call and the return of event-update.
C13_TickOrder ==
    round = "tick" =>
        \A q \in DOMAIN log :
            LET t == log[q]
            IN  /\ \A k \in 1..Len(t) : Rank(t[k].hook) > 0
                /\ \A j, k \in 1..Len(t) : j < k => Rank(t[j].hook) < Rank(t[k].hook)
                /\ \A k \in 1..Len(t) :
                      t[k].hook = "event_update" =>
                          \E j \in 1..(k - 1) :
                              /\ t[j].hook = "event_alloc2"
                              /\ ~t[j].trap
                              /\ t[j].ret = t[k].arg

C13_Witness ==
    /\ round = "tick"
    /\ pc = "tick_end"
    /\ hello_counter >= 1
    /\ \E q \in DOMAIN log :
         /\ Len(log[q]) = 4
         /\ log[q][2].ret = 8
         /\ log[q][4].arg = 8

\* C14: a plugin whose reset hook returned a non-zero status in a tick gets no
\* alloc call, no payload write and no event-update call in that tick.
C14_ResetFailureSkipsDispatch ==
    round = "tick" =>
        \A q \in DOMAIN log :
            LET t == log[q]
            IN  (Len(t) >= 1 /\ t[1].hook = "event_reset" /\ ~t[1].trap /\ t[1].ret # 0)
                    => Len(t) = 1

\* C15: a trap of any hook never stops the host (it leaves its loop only on a
\* close request), every other plugin still gets its hook calls of that round,
\* and later ticks run.
C15_TrapNeverStopsHost ==
    /\ control_flow = "Exit" => pc = "poll"
    /\ \A p \in DOMAIN log :
         (\E k \in 1..Len(log[p]) : log[p][k].trap) =>
             \A q \in DOMAIN log \ {p} :
                 Done(q) =>
                     /\ (round = "init" /\ plugins[q].event_init_fn) => Has(log[q], "event_init")
                     /\ (round = "update" /\ plugins[q].update_fn) => Has(log[q], "update")
                     /\ round = "tick" => Complete(plugins[q], log[q])

C15_Witness ==
    /\ trapped
    /\ control_flow = "Poll"
    /\ round = "tick"
    /\ pc = "tick_end"
    /\ Len(plugins) = 2
    /\ Len(log[1]) = 2
    /\ log[1][2].hook = "event_alloc2"
    /\ log[1][2].trap
    /\ Len(log[2]) = 4
    /\ ~HasTrap([i \in {2} |-> log[2]])

\* C16: once a hook of a plugin has trapped in a tick, the host takes no further
\* step on that plugin in that tick.
C16_TrapSkipsPlugin ==
    round = "tick" =>
        \A q \in DOMAIN log :
            \A k \in 1..Len(log[q]) : log[q][k].trap => k = Len(log[q])

C18_WriteOnlyInBounds ==
    round = "tick" =>
        \A q \in DOMAIN log :
            LET t == log[q]
            IN  \A k \in 1..Len(t) :
                    t[k].hook \in {"write", "event_update"} =>
                        \E j \in 1..(k - 1) :
                            /\ t[j].hook = "event_alloc2"
                            /\ ~t[j].trap
                            /\ t[j].ret # 0
                            /\ t[j].ret + size_of_HelloEvent <= plugins[q].memory.bytes
                            /\ t[k].hook = "write" => t[k].arg = t[j].ret

C18_Witness ==
    /\ round = "tick"
    /\ \E q \in DOMAIN log :
         /\ Has(log[q], "write")
         /\ Has(log[q], "event_update")
         /\ \E k \in 1..Len(log[q]) :
              log[q][k].hook = "write" /\ log[q][k].arg + size_of_HelloEvent = plugins[q].memory.bytes

\* C21: in each frame the ticks fired are floor(accumulated time / interval) of
\* the time accumulated when dispatch started; each tick takes exactly one
\* interval off the accumulator and adds exactly 1 to the counter; after
\* dispatch the accumulator is below the interval; all plugins of one tick get
\* the same counter value, and a tick is over for all plugins before the next
\* one starts.
C21_LockstepCatchUp ==
    frames >= 1 =>
        /\ lockstep_timer = dispatch_timer - frame_ticks * LOCKSTEP_INTEVAL
        /\ hello_counter = dispatch_counter + frame_ticks
        /\ lockstep_timer >= 0
        /\ pc = "poll" =>
              /\ lockstep_timer < LOCKSTEP_INTEVAL
              /\ frame_ticks = dispatch_timer \div LOCKSTEP_INTEVAL
        /\ round = "tick" =>
              \A q \in DOMAIN log :
                  \A k \in 1..Len(log[q]) :
                      log[q][k].hook = "write" =>
                          log[q][k].ret = IF pc \in {"lockstep", "poll"}
                                          THEN hello_counter - 1
                                          ELSE hello_counter
        /\ pc \in {"reset", "alloc", "event_update"} =>
              \A q \in DOMAIN log : q > pi => log[q] = <<>>

C21_Witness ==
    /\ pc = "poll"
    /\ frames = 2
    /\ frame_ticks = 2
    /\ dispatch_timer = 250
    /\ lockstep_timer = 50
    /\ hello_counter = 2
    /\ Len(plugins) = 2
    /\ Has(log[1], "write")
    /\ Has(log[2], "write")

\* C22: the event-init hook of every plugin that exports it is called exactly
\* once, before any reset, alloc or event-update call on any plugin; a plugin
\* whose event-init hook did not return success takes no part in tick dispatch.
C22_InitBeforeDispatch ==
    /\ \A q \in DOMAIN log :
         /\ round # "init" => ~Has(log[q], "event_init")
         /\ round = "init" =>
               /\ Len(log[q]) <= 1
               /\ \A k \in 1..Len(log[q]) : log[q][k].hook = "event_init"
               /\ (Done(q) /\ plugins[q].event_init_fn) => Has(log[q], "event_init")
    /\ round = "tick" => \A q \in init_failed : log[q] = <<>>

(***************************************************************************)
(* Properties of loading.                                                  *)
(***************************************************************************)
\* the load calls that succeeded, by their place in the sequence of calls
OkLoads == {k \in 1..Len(loads) : loads[k].res = "Ok"}

\* C23: iter_plugins yields exactly the plugins whose load succeeded, in the
\* order of their load calls; a plugin never moves, and a failed load leaves the
\* registry as it was.
C23_RegistryOrder ==
    LET reg == iter_plugins(plugins)
    IN  /\ Len(reg) = Cardinality(OkLoads)
        /\ \A i \in 1..Len(reg) :
              /\ reg[i].instance \in OkLoads
              /\ reg[i].meta = loads[reg[i].instance].dir.name
        /\ \A i, j \in 1..Len(reg) : i < j => reg[i].instance < reg[j].instance

C23_Witness ==
    /\ Len(loads) = 3
    /\ OkLoads = {1, 3}
    /\ loads[2].res = "FunctionType"
    /\ Len(plugins) = 2
    /\ plugins[1].meta = "bare"
    /\ plugins[2].meta = "core"

\* C24: in a load that gets as far as binding the hooks, a name the module does
\* not export gives an absent handle and the load succeeds, a name exported with
\* the expected signature gives a handle, and a name exported with another
\* signature or as a non-function makes the load fail with FunctionType and
\* adds no plugin.
C24_HookBinding ==
    Len(loads) >= 1 =>
        LET n == Len(loads)
            d == loads[n].dir
            e == d.exports
            kinds == {e.__gers_update, e.__gers_bump_init, e.__gers_bump_reset,
                      e.__gers_bump_alloc, e.__gers_event_alloc, e.__gers_event_update}
        IN  (d.descriptor = "ok" /\ d.wasm = "ok") =>
                IF kinds \cap {"fn_other", "not_fn"} # {}
                THEN /\ loads[n].res = "FunctionType"
                     /\ \A i \in 1..Len(plugins) : plugins[i].instance # n
                ELSE /\ loads[n].res = "Ok"
                     /\ Len(plugins) >= 1
                     /\ LET p == plugins[Len(plugins)]
                        IN  /\ p.instance = n
                            /\ p.update_fn <=> e.__gers_update = "fn"
                            /\ p.event_init_fn <=> e.__gers_bump_init = "fn"
                            /\ p.event_reset_fn <=> e.__gers_bump_reset = "fn"
                            /\ p.event_alloc2_fn <=> e.__gers_bump_alloc = "fn"
                            /\ p.event_alloc_fn <=> e.__gers_event_alloc = "fn"
                            /\ p.event_update_fn <=> e.__gers_event_update = "fn"

\* C25: a load that fails ends the loading of that plugin only: main() keeps
\* running and goes on to its init and dispatch phases.
C25_LoadErrorKeepsHost ==
    (\E k \in 1..Len(loads) : loads[k].res # "Ok") => pc # "returned"

(***************************************************************************)
(* Properties of the events.                                               *)
(***************************************************************************)
\* C26: EventType::from(v) is Hello exactly when v = 1 and NoOp for every other
\* 32-bit integer; the event-update hook of the guest called with a tag that
\* decodes to NoOp returns success and does not look at the pointer.
C26_TagDecodingTotal ==
    /\ \A v \in EventTags :
         /\ EventType_from(v) \in {"Hello", "NoOp"}
         /\ EventType_from(v) = "Hello" <=> v = 1
    /\ (core_last.hook = "__gers_event_update" /\ core_last.tag # 1) =>
          /\ ~core_last.trap
          /\ core_last.ret = 0
          /\ ~core_last.deref

C26_Witness ==
    /\ core_last.hook = "__gers_event_update"
    /\ core_last.tag = -1
    /\ core_last.ptr = 0
    /\ core_last.ret = 0
    /\ core_event_data.len = 0

\* C27: for every counter c the host builds data = c, padding = 0 and
\* div = c / 8 as a 16-bit value, and the bytes it wrote, read back through the
\* same layout, give these field values again (c = 42: 42, 0, 5).
C27_PayloadRoundTrip ==
    /\ payload.stage # "none" =>
          /\ payload.event.data = payload.counter
          /\ payload.event.padding = 0
          /\ payload.event.div = (payload.counter \div 8) % 65536
          /\ payload.counter = 42 => payload.event.div = 5
    /\ (payload.stage = "read" /\ payload.read.some) => payload.read.event = payload.event

C27_Witness ==
    /\ payload.stage = "read"
    /\ payload.read.some
    /\ payload.counter = 42
    /\ payload.read.event = [data |-> 42, padding |-> 0, div |-> 5]
    /\ payload.buffer[6] = 170

\* C28: a hook call on one plugin, and the write of its payload, leave the
\* allocator and the memory of every other plugin's instance as they were.
C28_PluginIsolation ==
    [][\A q \in DOMAIN guests : q # pi => guests'[q] = guests[q]]_vars

C28_Witness ==
    /\ Len(guests) = 2
    /\ pc = "tick_end"
    /\ hello_counter = 1
    /\ guests[1].bump.initialzed
    /\ guests[2].bump.initialzed
    /\ guests[1].bump.block.ptr = guests[2].bump.block.ptr
    /\ guests[1].bump.cursor = size_of_HelloEvent
    /\ guests[1].memory = guests[2].memory
    /\ DOMAIN guests[1].memory = {guests[1].bump.block.ptr}
    /\ guests[1].memory[guests[1].bump.block.ptr].data = 1

\* C29: when the system allocator cannot supply a block, initialize() returns
\* OutOfMemory and the allocator is as it was before the call: same cursor, same
\* block, same initialized flag, and the block it held is still held.
C29_InitializeOomLeavesState ==
    (last.op = "initialize" /\ last.res = "OutOfMemory") =>
        /\ bump = prev
        /\ heap = Held(prev, FALSE)

C29_Witness ==
    /\ last.op = "initialize"
    /\ last.res = "OutOfMemory"
    /\ prev.initialzed
    /\ prev.cursor > 0
    /\ bump = prev
    /\ heap = {prev.block.ptr}

\* C30: with address arithmetic modulo 2^w, every alloc that succeeds with a
\* power-of-two align returns an address inside the block, and the bytes it
\* hands out end inside the block: base <= address and
\* address + size <= base + block.size.
C30_ContainmentMachineArithmetic ==
    (last.op = "alloc" /\ last.res = "Ok" /\ is_power_of_two(last.align)) =>
        /\ prev.block.ptr <= last.ptr
        /\ last.ptr + last.size <= prev.block.ptr + prev.block.size

\* C31: of two byte ranges that successful allocs returned with no reset or
\* initialize between them, the later one starts at or after the end of the
\* earlier one, so the two are disjoint.
C31_NonOverlap ==
    (last.op \in AllocOps /\ last.res = "Ok") => granted.below <= last.ptr

\* C34: the system deallocator is only called on a block that was acquired and
\* is still held; the dangling placeholder block of an uninitialized allocator
\* is never handed to it, neither by initialize() nor by the drop.
C34_DeallocOnlyHeld ==
    wild = {}

\* plugin i is built on the hooks of gers_api and its allocator was never
\* initialized: its event-init hook failed, or it exports none
Unready(i) ==
    /\ guests[i].kind = "api"
    /\ i \in init_failed \/ ~plugins[i].event_init_fn

\* C32: a plugin built on the guest ABI hooks whose event-init hook failed, or
\* which exports none, keeps an uninitialized allocator: in every tick its alloc
\* hook returns null, no payload is ever written into its memory and its
\* event-update hook is never invoked.
C32_UnreadyNeverDispatched ==
    \A i \in DOMAIN guests :
        Unready(i) =>
            /\ ~guests[i].bump.initialzed
            /\ guests[i].memory = <<>>
            /\ ~Has(log[i], "write")
            /\ ~Has(log[i], "event_update")
            /\ \A k \in 1..Len(log[i]) :
                  log[i][k].hook = "event_alloc2" => ~log[i][k].trap /\ log[i][k].ret = 0

C32_Witness ==
    /\ Len(plugins) = 2
    /\ init_failed = {1}
    /\ ~plugins[2].event_init_fn
    /\ round = "tick"
    /\ pc = "tick_end"
    /\ hello_counter = 1
    /\ \A i \in {1, 2} :
          /\ Len(log[i]) = 2
          /\ log[i][1].hook = "event_reset"
          /\ log[i][1].ret = gers_error_t.AllocUninitialized
          /\ log[i][2].hook = "event_alloc2"
          /\ log[i][2].ret = 0
          /\ guests[i].memory = <<>>

\* plugin i is built on the hooks of gers_api and its event-init hook succeeded
Ready(i) ==
    /\ guests[i].kind = "api"
    /\ plugins[i].event_init_fn
    /\ i \notin init_failed
    /\ pc = "init" => i < pi

\* the calls of a hook in the log t
Calls(t, hook) == {k \in 1..Len(t) : t[k].hook = hook}

\* C33: for a plugin on the guest ABI hooks that exports init, reset, alloc,
\* event-update and its memory and whose init succeeded, in every tick the
\* reset hook returns 0, the alloc hook returns the start of the arena, the
\* payload is written there and event-update is invoked exactly once with that
\* address (the tag is 1); the arena never holds more than the one payload.
C33_SteadyState ==
    \A i \in DOMAIN guests :
        (Ready(i) /\ plugins[i].event_reset_fn /\ plugins[i].event_alloc2_fn
           /\ plugins[i].event_update_fn /\ plugins[i].memory.ok) =>
            LET base == guests[i].bump.block.ptr
                t == log[i]
            IN  /\ guests[i].bump.initialzed
                /\ guests[i].bump.cursor \in {0, size_of_HelloEvent}
                /\ DOMAIN guests[i].memory \subseteq {base}
                /\ \A k \in Calls(t, "event_reset") : ~t[k].trap /\ t[k].ret = 0
                /\ \A k \in Calls(t, "event_alloc2") : ~t[k].trap /\ t[k].ret = base
                /\ \A k \in Calls(t, "write") : t[k].arg = base
                /\ \A k \in Calls(t, "event_update") :
                      /\ t[k].arg = base
                      /\ event_update_args(base).event_type = 1
                /\ Cardinality(Calls(t, "event_update")) <= 1
                /\ (round = "tick" /\ Done(i)) =>
                      /\ Cardinality(Calls(t, "event_reset")) = 1
                      /\ Cardinality(Calls(t, "event_alloc2")) = 1
                      /\ Cardinality(Calls(t, "write")) = 1
                      /\ Cardinality(Calls(t, "event_update")) = 1
                      /\ guests[i].memory[base].data \in {hello_counter, hello_counter - 1}

C33_Witness ==
    /\ Len(plugins) = 1
    /\ Ready(1)
    /\ round = "tick"
    /\ pc = "tick_end"
    /\ hello_counter = 3
    /\ frames = 2
    /\ Cardinality(Calls(log[1], "event_update")) = 1
    /\ guests[1].bump.cursor = size_of_HelloEvent
    /\ guests[1].memory[guests[1].bump.block.ptr].data = 3

====
